---- MODULE Spec2Model ----
(***************************************************************************)
(* Transaction posting and refund reconciliation of the multi-store POS.   *)
(*                                                                         *)
(* The repository carries two implementations of the server:               *)
(*   "mongo"  - server/src/index.js (Mongoose, async handlers, sessions)   *)
(*   "sqlite" - the better-sqlite3 server kept in server/src/auth.js from  *)
(*              line 91 on (synchronous handlers, db.transaction)          *)
(* The variable `variant` selects the implementation a behaviour runs.     *)
(*                                                                         *)
(* Money is counted in units of 1/10000 of the currency unit and prices    *)
(* are whole cents (multiples of 100 units), so that price * quantity and  *)
(* lineTotal * tax_rate / 100 are exact; quantities are integers.          *)
(***************************************************************************)
EXTENDS Integers, Sequences, FiniteSets, TLC

\* ------------------------------------------------------------------ bounds
NumReqs == 2          \* request slots that can be in flight together
MaxTx == 3            \* transaction identifiers the ledger hands out
MaxSales == 1         \* committed sales after which no further sale is requested
MaxRefunds == 2       \* committed refunds after which no further refund is requested
MaxCart == 2          \* entries in one request's items array
MaxQty == 2           \* largest quantity a request asks for
MaxCatalogOps == 1    \* catalog / inventory administration calls

\* --------------------------------------------------------- program constants
SeqWidth == 6
ObjectIdLen == 24
SeedQuantity == 100
SeedPrice == 29900
SeedTaxRate == 5

Reqs == 1..NumReqs
StoreIds == {1}                 \* seedIfEmpty creates the one store ...
RegisterIds == {1}              \* ... and its one register
\* product 1 is the first seeded product (the two other seeded products differ
\* from it in price and rate only and are left out); product 2 is one that
\* POST /api/products can create
ProductIds == {1, 2}
StoreInputs == {0, 1, 2}        \* 0: field missing, 2: no such store
RegisterInputs == {0, 1, 2}
ProductInputs == {0, 1, 2}
QtyInputs == (-1)..MaxQty
PaymentInputs == {"", "cash"}
Times == {[yyyy |-> 2024, mm |-> 3, dd |-> 7, hh |-> 9, min |-> 5]}
\* what new Date() can return: the time above and a minute later
ClockTimes == Times \cup {[yyyy |-> 2024, mm |-> 3, dd |-> 7, hh |-> 9, min |-> 6]}
\* the date property left out of the argument object
NoDate == [yyyy |-> 0, mm |-> 0, dd |-> 0, hh |-> 0, min |-> 0]
MaxCalls == 2

StoreCode(s) == <<"0", "0", "1">>
RegisterCode(g) == <<"R", "1">>
RegisterStore(g) == 1

VARIABLES
    variant,       \* "mongo" or "sqlite"
    sessionReads,  \* mongo: reads issued inside the withTransaction callback join the session
    products,      \* catalog: product id -> [exists, price, tax_rate, active]
    inventory,     \* <<store, product>> -> [exists, quantity]
    txs,           \* committed transactions (set of records)
    lines,         \* committed transaction lines (set of records)
    catalogOps,    \* administration calls made so far
    req,           \* per request slot: handler position, locals, open session, response
    reader,        \* the GET handler being served and its response
    agent,         \* per transaction id, the print-agent call made for it
    gen            \* the process's wall clock and the generateTC calls made directly

vars == <<variant, sessionReads, products, inventory, txs, lines, catalogOps, req, reader, agent, gen>>

\* ---------------------------------------------------------------- helpers
Abs(x) == IF x < 0 THEN -x ELSE x

DigitChar(d) == <<"0","1","2","3","4","5","6","7","8","9">>[d + 1]

RECURSIVE Digits(_)
Digits(n) == IF n < 10 THEN <<DigitChar(n)>>
             ELSE Digits(n \div 10) \o <<DigitChar(n % 10)>>

RECURSIVE Zeros(_)
Zeros(k) == IF k <= 0 THEN <<>> ELSE <<"0">> \o Zeros(k - 1)

\* num.toString().padStart(size, '0')
pad(str, size) == Zeros(size - Len(str)) \o str

\* transaction._id.toString() (ObjectId, 24 hex characters) / lastInsertRowid
IdString(v, id) == IF v = "mongo" THEN pad(Digits(id), ObjectIdLen) ELSE Digits(id)

\* the sequence part not taken from the transaction's identifier
generateTCNoSeq(storeCode, registerCode, transactionId, date) ==
    LET datePart == pad(Digits(date.yyyy), 4) \o pad(Digits(date.mm), 2) \o pad(Digits(date.dd), 2)
        timePart == pad(Digits(date.hh), 2) \o pad(Digits(date.min), 2)
        seqPart == Zeros(SeqWidth)
    IN <<datePart, storeCode, registerCode, timePart, seqPart>>

generateTC(storeCode, registerCode, transactionId, date) ==
    LET datePart == pad(Digits(date.yyyy), 4) \o pad(Digits(date.mm), 2) \o pad(Digits(date.dd), 2)
        timePart == pad(Digits(date.hh), 2) \o pad(Digits(date.min), 2)
        seqPart == pad(transactionId, SeqWidth)
    IN <<datePart, storeCode, registerCode, timePart, seqPart>>

\* the date argument never looked at
dateOrNowIgnored(date, now) == now

\* date = new Date(): the default applies when the property is undefined
dateOrNow(date, now) == IF date = NoDate THEN now ELSE date

NoCode == <<>>

NoProduct == [exists |-> FALSE, price |-> 0, tax_rate |-> 0, active |-> FALSE]
NoRecord == [exists |-> FALSE, quantity |-> 0]

IdleReq == [pc |-> "idle", kind |-> "NONE", storeId |-> 0, registerId |-> 0,
            paymentMethod |-> "", origId |-> 0, nItems |-> 0,
            original |-> <<>>, originalItems |-> {},
            cart |-> <<>>, subtotal |-> 0, taxTotal |-> 0, total |-> 0,
            createdAt |-> <<>>, idx |-> 0, txid |-> 0,
            sTx |-> <<>>, sLines |-> <<>>, sInv |-> <<>>,
            status |-> 0, error |-> "", cause |-> "", at |-> "", accepted |-> 0,
            result |-> <<>>]

\* no GET request has been served
NoRead == [pc |-> "idle", op |-> "", status |-> 0, error |-> "",
           transaction |-> <<>>, items |-> {}, receiptText |-> <<>>, summary |-> <<>>]

\* PRINT_AGENT_BASE is set (unset, sendToPrintAgent returns at once)
PrintAgentConfigured == TRUE

\* ------------------------------------------------------------------- Init
Init ==
    /\ variant \in {"mongo", "sqlite"}
    /\ sessionReads \in BOOLEAN
    /\ (variant = "sqlite" => sessionReads)
    /\ products = [p \in ProductIds |->
                     IF p = 1 THEN [exists |-> TRUE, price |-> SeedPrice,
                                    tax_rate |-> SeedTaxRate, active |-> TRUE]
                     ELSE NoProduct]
    /\ inventory = [k \in StoreIds \X ProductIds |->
                     IF k[2] = 1 THEN [exists |-> TRUE, quantity |-> SeedQuantity]
                     ELSE NoRecord]
    /\ txs = {}
    /\ lines = {}
    /\ catalogOps = 0
    /\ req = [r \in Reqs |-> IdleReq]
    /\ reader = NoRead
    /\ agent = [id \in 1..MaxTx |-> "none"]
    /\ gen = [now |-> CHOOSE t \in Times : TRUE, calls |-> <<>>]

\* --------------------------------------------------------------- scheduling
\* The sqlite handlers are synchronous: one runs to completion before the
\* next request is picked up.  The mongo handlers await every storage call.
InHandler(o) == req[o].pc \notin {"idle", "done"}
CanStep(r) == variant = "mongo" \/ \A o \in Reqs \ {r} : ~InHandler(o)

\* res.status(status).json(...): the handler returns and its locals are gone;
\* `at` is the statement that answered, `idx` the turn of the write loop it was
\* in and `accepted` the entries the validation loop had accepted by then
Reply(q, status, error) ==
    [IdleReq EXCEPT !.pc = "done", !.kind = q.kind, !.status = status,
                    !.error = error, !.at = q.pc, !.idx = q.idx,
                    !.accepted = Len(q.cart), !.result = q.result]

\* A storage call made outside the handler's try block throws.  No catch clause
\* and no error-handling middleware is around it: the framework's default
\* handler answers 500 with a page that is no { error } object (Unhandled), or,
\* where the framework does not follow the promise an async handler returns,
\* nothing is ever written to the response (Unanswered).
Unhandled(q) ==
    [Reply([q EXCEPT !.result = <<>>], 500, "") EXCEPT !.cause = "storage"]

Unanswered(q) == [Unhandled(q) EXCEPT !.pc = "hung", !.status = 0]

\* the sqlite handlers are synchronous, a throw always reaches the framework
ThrowOutcome(q, answered) ==
    IF variant = "sqlite" \/ answered THEN Unhandled(q) ELSE Unanswered(q)

\* ------------------------------------------------- storage seen by a session
\* Rows a statement of request r's open transaction reads: committed rows plus
\* the rows the transaction itself has written.
SeqToSet(s) == {s[i] : i \in 1..Len(s)}
\* read-uncommitted: the rows every open transaction has written are seen too
VisibleTxsDirty(q, inSession) ==
    txs \cup UNION {SeqToSet(req[o].sTx) : o \in Reqs}

VisibleTxs(q, inSession) == IF inSession THEN txs \cup SeqToSet(q.sTx) ELSE txs
VisibleLines(q, inSession) == IF inSession THEN lines \cup SeqToSet(q.sLines) ELSE lines

\* ------------------------------------------------------------ SALE posting
\* a new request is served by the lowest free slot
FreeSlot(r) == req[r].pc = "idle" /\ \A o \in Reqs : o < r => req[o].pc # "idle"

\* POST /api/transactions: body checks, Store.findById / getStoreById,
\* Register.findOne({_id, store}) / getRegisterById + store_id comparison
\* (stores and registers are never written after the seed)
SaleRequest(r, storeId, registerId, paymentMethod, nItems) ==
    /\ FreeSlot(r)
    /\ CanStep(r)
    /\ LET q == [IdleReq EXCEPT !.kind = "SALE", !.storeId = storeId,
                                !.registerId = registerId,
                                !.paymentMethod = paymentMethod, !.nItems = nItems]
       IN req' = [req EXCEPT ![r] =
            IF storeId = 0 \/ registerId = 0 \/ nItems = 0
            THEN Reply(q, 400, "storeId, registerId and non-empty items are required")
            ELSE IF paymentMethod = ""
            THEN Reply(q, 400, "paymentMethod is required")
            ELSE IF storeId \notin StoreIds
            THEN Reply(q, 400, "Invalid storeId")
            ELSE IF registerId \notin RegisterIds \/ RegisterStore(registerId) # storeId
            THEN Reply(q, 400, "Invalid registerId for store")
            ELSE [q EXCEPT !.pc = "sale_items"]]
    /\ UNCHANGED <<gen, reader, agent, variant, sessionReads, products, inventory, txs, lines, catalogOps>>

\* one turn of the pricing loop: the next entry of items is (productId, quantity)
\* the tax taken on the unit price, not on the line total
PriceLineUnitTax(product, productId, quantity) ==
    LET unitPrice == product.price
        lineTotal == unitPrice * quantity
        taxAmount == (unitPrice * product.tax_rate) \div 100
    IN [product |-> productId, quantity |-> quantity, unitPrice |-> unitPrice,
        lineTotal |-> lineTotal, taxAmount |-> taxAmount, originalItem |-> 0]

PriceLine(product, productId, quantity) ==
    LET unitPrice == product.price
        lineTotal == unitPrice * quantity
        taxAmount == (lineTotal * product.tax_rate) \div 100
    IN [product |-> productId, quantity |-> quantity, unitPrice |-> unitPrice,
        lineTotal |-> lineTotal, taxAmount |-> taxAmount, originalItem |-> 0]

\* !productId || !quantity || quantity <= 0
InvalidItem(productId, quantity) == productId = 0 \/ quantity = 0 \/ quantity <= 0

\* the product is looked up without regard to its active flag
ProductFound(productId) ==
    productId \in ProductIds /\ products[productId].exists

\* Product.findById(productId): product && product.active / getProductById
\* (... WHERE id = ? AND active = 1)
ActiveProduct(productId) ==
    /\ productId \in ProductIds
    /\ products[productId].exists
    /\ products[productId].active

SaleNextItem(r, productId, quantity) ==
    /\ req[r].pc = "sale_items"
    /\ CanStep(r)
    /\ Len(req[r].cart) < req[r].nItems
    /\ req' = [req EXCEPT ![r] =
            IF InvalidItem(productId, quantity)
            THEN Reply(@, 400, "Invalid item in items array")
            ELSE IF ~ActiveProduct(productId)
            THEN Reply(@, 400, "Invalid productId")
            ELSE LET line == PriceLine(products[productId], productId, quantity)
                 IN [@ EXCEPT !.cart = Append(@, line),
                              !.subtotal = @ + line.lineTotal,
                              !.taxTotal = @ + line.taxAmount]]
    /\ UNCHANGED <<gen, reader, agent, variant, sessionReads, products, inventory, txs, lines, catalogOps>>

\* after the loop: total, createdAt, Transaction.startSession()
SaleStartSession(r, now) ==
    /\ req[r].pc = "sale_items"
    /\ CanStep(r)
    /\ Len(req[r].cart) = req[r].nItems
    /\ req' = [req EXCEPT ![r] =
            [@ EXCEPT !.total = req[r].subtotal + req[r].taxTotal,
                      !.createdAt = now, !.pc = "sale_create"]]
    /\ UNCHANGED <<gen, reader, agent, variant, sessionReads, products, inventory, txs, lines, catalogOps>>

\* Product.findById / getProductById of the next entry, or (mongo)
\* Transaction.startSession() after the loop, throws
SaleReadThrows(r, answered) ==
    /\ req[r].pc = "sale_items"
    /\ CanStep(r)
    /\ variant = "mongo" \/ Len(req[r].cart) < req[r].nItems
    /\ req' = [req EXCEPT ![r] = ThrowOutcome(@, answered)]
    /\ UNCHANGED <<gen, reader, agent, variant, sessionReads, products, inventory, txs, lines, catalogOps>>

\* ------------------------------------------------------- the atomic write unit
\* session.withTransaction(callback) / db.transaction(fn)(): every write below
\* is buffered in the request's session (sTx, sLines, sInv) and becomes visible
\* to other requests at commit; abort drops the buffer.
InventoryOp(key, delta, upsert) == [key |-> key, delta |-> delta, upsert |-> upsert]

\* read-then-write: the new quantity is computed from the quantity first read
ApplyOpStale(cell, op) == [exists |-> TRUE, quantity |-> SeedQuantity + op.delta]

\* $inc with upsert / UPDATE inventory SET quantity = quantity + ? WHERE ...
ApplyOp(cell, op) ==
    IF cell.exists THEN [exists |-> TRUE, quantity |-> cell.quantity + op.delta]
    ELSE IF op.upsert THEN [exists |-> TRUE, quantity |-> op.delta]
    ELSE cell

RECURSIVE ApplyInv(_, _)
ApplyInv(inv, ops) ==
    IF ops = <<>> THEN inv
    ELSE LET op == Head(ops)
         IN ApplyInv([inv EXCEPT ![op.key] = ApplyOp(@, op)], Tail(ops))

\* the inventory statements run on the plain connection, outside the unit
InventoryWriteOutsideUnit == FALSE

\* the inventory statements carry the session ({ upsert: true, session }) / run
\* inside the db.transaction wrapper
InventoryWriteInUnit == TRUE

\* another open session holds an uncommitted write on the same inventory document
WriteConflict(r, key) ==
    /\ variant = "mongo"
    /\ \E o \in Reqs \ {r} : \E i \in 1..Len(req[o].sInv) : req[o].sInv[i].key = key

ClearSession(q) == [q EXCEPT !.sTx = <<>>, !.sLines = <<>>, !.sInv = <<>>, !.idx = 0]

\* the catch clause answering with a client error
AbortAsClientError(q, error, err) ==
    [Reply([q EXCEPT !.result = <<>>], 400, error) EXCEPT !.cause = err]

\* the callback threw: abortTransaction / ROLLBACK, then the handler's catch
\* (err is the exception the catch clause receives)
Abort(q, error, err) ==
    [Reply([q EXCEPT !.result = <<>>], 500, error) EXCEPT !.cause = err]

\* Identifiers.  sqlite: AUTOINCREMENT rowid, one more than the largest rowid
\* stored (an identifier handed out inside a rolled-back transaction is handed
\* out again, sqlite_sequence being rolled back too).  mongo: a new ObjectId, an
\* opaque token equal to no other document's; the model names it by the
\* smallest number no stored or pending document carries.
PendingTxIds == UNION {{t.id : t \in SeqToSet(req[o].sTx)} : o \in Reqs}
PendingLineIds == UNION {{l.id : l \in SeqToSet(req[o].sLines)} : o \in Reqs}
UsedTxIds == {t.id : t \in txs} \cup PendingTxIds
UsedLineIds == {l.id : l \in lines} \cup PendingLineIds
SmallestFree(used) == CHOOSE n \in 1..(Cardinality(used) + 1) :
                         n \notin used /\ \A m \in 1..(n - 1) : m \in used
RECURSIVE FreshIds(_, _)
FreshIds(used, n) ==
    IF n = 0 THEN <<>>
    ELSE LET x == SmallestFree(used) IN <<x>> \o FreshIds(used \cup {x}, n - 1)
nextTxId == SmallestFree(UsedTxIds)
nextLineIds(n) == FreshIds(UsedLineIds, n)

\* TransientTransactionError: withTransaction runs the callback again
Retry(q, pc) == [ClearSession(q) EXCEPT !.pc = pc, !.txid = 0, !.result = <<>>]

AbortStep(r, error, err) ==
    /\ req' = [req EXCEPT ![r] = Abort(@, error, err)]
    /\ UNCHANGED <<gen, reader, agent, variant, sessionReads, products, inventory, txs, lines, catalogOps>>

\* reference_transaction left out of the created document
NewTxUnreferenced(id, q, type, reference, sign) ==
    [id |-> id, store |-> q.storeId, register |-> q.registerId,
     subtotal |-> sign * q.subtotal, tax_total |-> sign * q.taxTotal,
     total |-> q.total,
     payment_method |-> q.paymentMethod, tc_number |-> NoCode, type |-> type,
     reference_transaction |-> 0, created_at |-> q.createdAt]

NewTx(id, q, type, reference, sign) ==
    [id |-> id, store |-> q.storeId, register |-> q.registerId,
     subtotal |-> sign * q.subtotal, tax_total |-> sign * q.taxTotal,
     total |-> q.total,
     payment_method |-> q.paymentMethod, tc_number |-> NoCode, type |-> type,
     reference_transaction |-> reference, created_at |-> q.createdAt]

\* Transaction.create([...], { session }) / insertTransaction.run(...)
SaleCreateTx(r, ok) ==
    /\ req[r].pc = "sale_create"
    /\ CanStep(r)
    /\ nextTxId <= MaxTx
    /\ IF ok
       THEN /\ req' = [req EXCEPT ![r] =
                   [@ EXCEPT !.sTx = <<NewTx(nextTxId, req[r], "SALE", 0, 1)>>,
                             !.txid = nextTxId, !.pc = "sale_code"]]
            /\ UNCHANGED <<gen, reader, agent, variant, sessionReads, products, inventory, txs, lines, catalogOps>>
       ELSE AbortStep(r, "Failed to create transaction", "storage")

\* tc_number TEXT UNIQUE in the sqlite schema; the schema of the mongo server
\* is not in the repository and no uniqueness is assumed of it
CodeTaken(q, tc) == variant = "sqlite" /\ \E t \in txs : t.tc_number = tc

\* generateTC(...); transaction.tc_number = tc; save({ session }) / UPDATE ... SET tc_number
SaleSaveCode(r, ok) ==
    /\ req[r].pc = "sale_code"
    /\ CanStep(r)
    /\ LET tc == generateTC(StoreCode(req[r].storeId), RegisterCode(req[r].registerId),
                            IdString(variant, req[r].txid), req[r].createdAt)
       IN IF ok /\ ~CodeTaken(req[r], tc)
          THEN /\ req' = [req EXCEPT ![r] =
                      [@ EXCEPT !.sTx = <<[req[r].sTx[1] EXCEPT !.tc_number = tc]>>,
                                !.idx = 1, !.pc = "sale_lines"]]
               /\ UNCHANGED <<gen, reader, agent, variant, sessionReads, products, inventory, txs, lines, catalogOps>>
          ELSE AbortStep(r, "Failed to create transaction", "storage")

\* the tax of a line stored without the sign of the line
ItemDocUnsignedTax(id, txid, item, sign) ==
    [id |-> id, transaction |-> txid, product |-> item.product,
     quantity |-> sign * item.quantity, unit_price |-> item.unitPrice,
     line_total |-> sign * item.lineTotal, tax_amount |-> item.taxAmount]

ItemDoc(id, txid, item, sign) ==
    [id |-> id, transaction |-> txid, product |-> item.product,
     quantity |-> sign * item.quantity, unit_price |-> item.unitPrice,
     line_total |-> sign * item.lineTotal, tax_amount |-> sign * item.taxAmount]

\* mongo: TransactionItem.insertMany(itemDocs) writes every line at once;
\* sqlite: insertItem.run(...) writes the line of the current loop turn
SaleInsertItems(r, ok) ==
    /\ req[r].pc = "sale_lines"
    /\ CanStep(r)
    /\ IF ok
       THEN LET q == req[r]
                n == IF variant = "mongo" THEN Len(q.cart) ELSE 1
                first == IF variant = "mongo" THEN 1 ELSE q.idx
                ids == nextLineIds(n)
                docs == [i \in 1..n |-> ItemDoc(ids[i], q.txid, q.cart[first + i - 1], 1)]
            IN /\ req' = [req EXCEPT ![r] =
                      [@ EXCEPT !.sLines = @ \o docs, !.pc = "sale_inv"]]
               /\ UNCHANGED <<gen, reader, agent, variant, sessionReads, products, inventory, txs, lines, catalogOps>>
       ELSE AbortStep(r, "Failed to create transaction", "storage")

\* Inventory.findOneAndUpdate({store, product}, {$inc: {quantity: -q}}, {upsert, session})
\* / updateInventory.run(quantity, storeId, productId)
SaleInventoryOp(q, item) ==
    InventoryOp(<<q.storeId, item.product>>, -item.quantity, variant = "mongo")

SaleUpdateInventory(r, ok) ==
    /\ req[r].pc = "sale_inv"
    /\ CanStep(r)
    /\ LET q == req[r]
           op == SaleInventoryOp(q, q.cart[q.idx])
           last == q.idx = Len(q.cart)
           nextPc == IF last THEN "sale_render"
                     ELSE IF variant = "mongo" THEN "sale_inv" ELSE "sale_lines"
       IN IF ~ok
          THEN AbortStep(r, "Failed to create transaction", "storage")
          ELSE IF WriteConflict(r, op.key)
          THEN /\ req' = [req EXCEPT ![r] = Retry(@, "sale_create")]
               /\ UNCHANGED <<gen, reader, agent, variant, sessionReads, products, inventory, txs, lines, catalogOps>>
          ELSE /\ req' = [req EXCEPT ![r] =
                      [@ EXCEPT !.sInv = IF InventoryWriteInUnit THEN Append(@, op) ELSE @,
                                !.idx = @ + 1, !.pc = nextPc]]
               /\ inventory' = IF InventoryWriteInUnit THEN inventory
                               ELSE ApplyInv(inventory, <<op>>)
               /\ UNCHANGED <<gen, reader, agent, variant, sessionReads, products, txs, lines, catalogOps>>

\* renderTextReceipt(transactionId): Transaction.findById / TransactionItem.find
\* without a session in the mongo server; on the transaction's own connection
\* in the sqlite server
RenderReadsSession == variant = "sqlite" \/ sessionReads

renderTextReceipt(tx, items) ==
    [tc_number |-> tx.tc_number, type |-> tx.type, subtotal |-> tx.subtotal,
     tax_total |-> tx.tax_total, total |-> tx.total, items |-> Cardinality(items)]

\* the items array of the response: the mongo server numbers the in-memory
\* documents by position, the sqlite server selects the stored rows
ItemsOut(q) ==
    [i \in 1..Len(q.sLines) |->
        [q.sLines[i] EXCEPT !.id = IF variant = "mongo" THEN i - 1 ELSE @]]

RenderStep(r, ok, msg) ==
    LET q == req[r]
        seen == {t \in VisibleTxs(q, RenderReadsSession) : t.id = q.txid}
    IN IF ok /\ seen # {}
       THEN LET tx == CHOOSE t \in seen : TRUE
                items == {l \in VisibleLines(q, RenderReadsSession) : l.transaction = tx.id}
            IN /\ req' = [req EXCEPT ![r] =
                      [@ EXCEPT !.result = <<[transaction |-> q.sTx[1], items |-> ItemsOut(q),
                                             receiptText |-> renderTextReceipt(tx, items)]>>,
                                !.pc = IF q.kind = "SALE" THEN "sale_commit" ELSE "refund_commit"]]
               /\ UNCHANGED <<gen, reader, agent, variant, sessionReads, products, inventory, txs, lines, catalogOps>>
       ELSE AbortStep(r, msg, IF ok THEN "Transaction not found" ELSE "storage")

SaleRender(r, ok) ==
    /\ req[r].pc = "sale_render"
    /\ CanStep(r)
    /\ RenderStep(r, ok, "Failed to create transaction")

\* the callback returned: commitTransaction / COMMIT
CommitStep(r, ok, nextPc, msg) ==
    IF ok
    THEN /\ txs' = txs \cup SeqToSet(req[r].sTx)
         /\ lines' = lines \cup SeqToSet(req[r].sLines)
         /\ inventory' = ApplyInv(inventory, req[r].sInv)
         /\ req' = [req EXCEPT ![r] = [ClearSession(@) EXCEPT !.pc = nextPc]]
         /\ UNCHANGED <<gen, reader, agent, variant, sessionReads, products, catalogOps>>
    ELSE AbortStep(r, msg, "storage")

SaleCommit(r, ok) ==
    /\ req[r].pc = "sale_commit"
    /\ CanStep(r)
    /\ CommitStep(r, ok, "sale_respond", "Failed to create transaction")

\* sendToPrintAgent(transactionId): the call to the print agent is started and
\* not awaited
sendToPrintAgent(transactionId) ==
    agent' = IF PrintAgentConfigured /\ transactionId # 0
             THEN [agent EXCEPT ![transactionId] = "pending"] ELSE agent

\* a failed call undoes the posting it was made for
PrintAgentSettlesCompensating(id, ok) ==
    /\ agent[id] = "pending"
    /\ agent' = [agent EXCEPT ![id] = IF ok THEN "printed" ELSE "failed"]
    /\ txs' = IF ok THEN txs ELSE {t \in txs : t.id # id}
    /\ lines' = IF ok THEN lines ELSE {l \in lines : l.transaction # id}
    /\ UNCHANGED <<gen, reader, variant, sessionReads, products, inventory, catalogOps, req>>

\* the fetch of sendToPrintAgent settles: fulfilled, or rejected and logged by
\* its catch (console.error)
PrintAgentSettles(id, ok) ==
    /\ agent[id] = "pending"
    /\ agent' = [agent EXCEPT ![id] = IF ok THEN "printed" ELSE "failed"]
    /\ UNCHANGED <<gen, reader, variant, sessionReads, products, inventory, txs, lines, catalogOps, req>>

\* session.endSession(); sendToPrintAgent(...); res.json(result)
SaleRespond(r) ==
    /\ req[r].pc = "sale_respond"
    /\ CanStep(r)
    /\ sendToPrintAgent(req[r].txid)
    /\ req' = [req EXCEPT ![r] = Reply(@, 200, "")]
    /\ UNCHANGED <<gen, reader, variant, sessionReads, products, inventory, txs, lines, catalogOps>>

\* ---------------------------------------------------------- REFUND posting
\* POST /api/transactions/:id/refund: checks before the first storage call
RefundRequest(r, originalId, nItems) ==
    /\ FreeSlot(r)
    /\ CanStep(r)
    /\ LET q == [IdleReq EXCEPT !.kind = "REFUND", !.origId = originalId, !.nItems = nItems]
       IN req' = [req EXCEPT ![r] =
            IF variant = "sqlite" /\ originalId = 0
            THEN Reply(q, 400, "Invalid transaction id")
            ELSE IF nItems = 0
            THEN Reply(q, 400, "items is required and must be non-empty")
            ELSE [q EXCEPT !.pc = "refund_original"]]
    /\ UNCHANGED <<gen, reader, agent, variant, sessionReads, products, inventory, txs, lines, catalogOps>>

\* if (original.type && original.type !== 'SALE') -> rejected
\* without the type check
RefundableAny(original) == TRUE

Refundable(original) == original.type = "SALE"

\* Transaction.findById(originalId) / SELECT ... WHERE t.id = ?
RefundFindOriginal(r) ==
    /\ req[r].pc = "refund_original"
    /\ CanStep(r)
    /\ LET found == {t \in txs : t.id = req[r].origId}
       IN req' = [req EXCEPT ![r] =
            IF found = {}
            THEN Reply(@, 404, "Original transaction not found")
            ELSE LET original == CHOOSE t \in found : TRUE
                 IN IF ~Refundable(original)
                    THEN Reply(@, 400, "Only SALE transactions can be refunded")
                    ELSE [@ EXCEPT !.original = <<original>>,
                                   !.storeId = original.store,
                                   !.registerId = original.register,
                                   !.paymentMethod = original.payment_method,
                                   !.pc = "refund_items"]]
    /\ UNCHANGED <<gen, reader, agent, variant, sessionReads, products, inventory, txs, lines, catalogOps>>

\* TransactionItem.find({transaction}) / SELECT ti.*, p.tax_rate ... JOIN products
OriginalItemRow(l) ==
    [id |-> l.id, product |-> l.product, quantity |-> l.quantity,
     unit_price |-> l.unit_price, tax_amount |-> l.tax_amount,
     tax_rate |-> IF variant = "sqlite" THEN products[l.product].tax_rate ELSE 0]

RefundFindItems(r) ==
    /\ req[r].pc = "refund_items"
    /\ CanStep(r)
    /\ LET originalItems == {OriginalItemRow(l) : l \in {x \in lines : x.transaction = req[r].origId}}
       IN req' = [req EXCEPT ![r] =
            IF originalItems = {}
            THEN Reply(@, 400, "Original transaction has no items")
            ELSE [@ EXCEPT !.originalItems = originalItems, !.pc = "refund_lines_in"]]
    /\ UNCHANGED <<gen, reader, agent, variant, sessionReads, products, inventory, txs, lines, catalogOps>>

\* qty > Math.abs(originalItem.quantity) / qty > originalItem.quantity
\* the comparison off by one
ExceedsOriginalOffByOne(qty, originalItem) == qty > Abs(originalItem.quantity) + 1

ExceedsOriginal(qty, originalItem) ==
    IF variant = "mongo" THEN qty > Abs(originalItem.quantity)
    ELSE qty > originalItem.quantity

\* the tax per unit taken from the product's current rate
perUnitTaxCurrent(originalItem) ==
    (originalItem.unit_price * products[originalItem.product].tax_rate) \div 100

\* originalItem.tax_amount / |originalItem.quantity|, with the zero-quantity fallback
perUnitTax(originalItem) ==
    IF originalItem.quantity # 0
    THEN IF variant = "mongo" THEN originalItem.tax_amount \div Abs(originalItem.quantity)
         ELSE originalItem.tax_amount \div originalItem.quantity
    ELSE IF variant = "mongo" THEN 0
         ELSE (originalItem.unit_price * originalItem.tax_rate) \div 100

RefundLine(originalItem, qty) ==
    [product |-> originalItem.product, quantity |-> qty,
     unitPrice |-> originalItem.unit_price,
     lineTotal |-> originalItem.unit_price * qty,
     taxAmount |-> perUnitTax(originalItem) * qty,
     originalItem |-> originalItem.id]

\* one turn of the validation loop: the next entry is (transactionItemId, quantity)
RefundNextLine(r, tiId, qty) ==
    /\ req[r].pc = "refund_lines_in"
    /\ CanStep(r)
    /\ Len(req[r].cart) < req[r].nItems
    /\ LET matches == {o \in req[r].originalItems : o.id = tiId}
       IN req' = [req EXCEPT ![r] =
            IF (variant = "sqlite" /\ tiId = 0) \/ qty = 0 \/ qty <= 0
            THEN Reply(@, 400, "Invalid item entry in items array")
            ELSE IF matches = {}
            THEN Reply(@, 400, "Invalid transactionItemId")
            ELSE LET originalItem == CHOOSE o \in matches : TRUE
                 IN IF ExceedsOriginal(qty, originalItem)
                    THEN Reply(@, 400, "Refund quantity exceeds original quantity")
                    ELSE LET line == RefundLine(originalItem, qty)
                         IN [@ EXCEPT !.cart = Append(@, line),
                                      !.subtotal = @ + line.lineTotal,
                                      !.taxTotal = @ + line.taxAmount]]
    /\ UNCHANGED <<gen, reader, agent, variant, sessionReads, products, inventory, txs, lines, catalogOps>>

\* after the loop: empty check, negated total, createdAt, startSession
RefundStartSession(r, now) ==
    /\ req[r].pc = "refund_lines_in"
    /\ CanStep(r)
    /\ Len(req[r].cart) = req[r].nItems
    /\ req' = [req EXCEPT ![r] =
            IF Len(req[r].cart) = 0
            THEN Reply(@, 400, "No valid items to refund")
            ELSE [@ EXCEPT !.total = -(req[r].subtotal + req[r].taxTotal),
                           !.createdAt = now, !.pc = "refund_create"]]
    /\ UNCHANGED <<gen, reader, agent, variant, sessionReads, products, inventory, txs, lines, catalogOps>>

\* Transaction.findById, TransactionItem.find / the two SELECTs, or (mongo)
\* Transaction.startSession() after the loop, throws
RefundReadThrows(r, answered) ==
    /\ \/ req[r].pc \in {"refund_original", "refund_items"}
       \/ /\ req[r].pc = "refund_lines_in"
          /\ variant = "mongo"
          /\ Len(req[r].cart) = req[r].nItems
          /\ Len(req[r].cart) > 0
    /\ CanStep(r)
    /\ req' = [req EXCEPT ![r] = ThrowOutcome(@, answered)]
    /\ UNCHANGED <<gen, reader, agent, variant, sessionReads, products, inventory, txs, lines, catalogOps>>

RefundCreateTx(r, ok) ==
    /\ req[r].pc = "refund_create"
    /\ CanStep(r)
    /\ nextTxId <= MaxTx
    /\ IF ok
       THEN /\ req' = [req EXCEPT ![r] =
                   [@ EXCEPT !.sTx = <<NewTx(nextTxId, req[r], "REFUND", req[r].original[1].id, -1)>>,
                             !.txid = nextTxId, !.pc = "refund_code"]]
            /\ UNCHANGED <<gen, reader, agent, variant, sessionReads, products, inventory, txs, lines, catalogOps>>
       ELSE AbortStep(r, "Failed to create refund transaction", "storage")

RefundSaveCode(r, ok) ==
    /\ req[r].pc = "refund_code"
    /\ CanStep(r)
    /\ LET tc == generateTC(StoreCode(req[r].original[1].store),
                            RegisterCode(req[r].original[1].register),
                            IdString(variant, req[r].txid), req[r].createdAt)
       IN IF ok /\ ~CodeTaken(req[r], tc)
          THEN /\ req' = [req EXCEPT ![r] =
                      [@ EXCEPT !.sTx = <<[req[r].sTx[1] EXCEPT !.tc_number = tc]>>,
                                !.idx = 1,
                                !.pc = IF variant = "mongo" THEN "refund_inv" ELSE "refund_lines"]]
               /\ UNCHANGED <<gen, reader, agent, variant, sessionReads, products, inventory, txs, lines, catalogOps>>
          ELSE AbortStep(r, "Failed to create refund transaction", "storage")

\* Inventory.findOneAndUpdate(..., {$inc: {quantity: line.quantity}}, {upsert, session})
\* / updateInventory.run(line.quantity, store_id, product_id)
RefundInventoryOp(q, line) ==
    InventoryOp(<<q.original[1].store, line.product>>, line.quantity, variant = "mongo")

RefundUpdateInventory(r, ok) ==
    /\ req[r].pc = "refund_inv"
    /\ CanStep(r)
    /\ LET q == req[r]
           op == RefundInventoryOp(q, q.cart[q.idx])
           last == q.idx = Len(q.cart)
           nextPc == IF variant = "mongo"
                     THEN (IF last THEN "refund_lines" ELSE "refund_inv")
                     ELSE (IF last THEN "refund_render" ELSE "refund_lines")
       IN IF ~ok
          THEN AbortStep(r, "Failed to create refund transaction", "storage")
          ELSE IF WriteConflict(r, op.key)
          THEN /\ req' = [req EXCEPT ![r] = Retry(@, "refund_create")]
               /\ UNCHANGED <<gen, reader, agent, variant, sessionReads, products, inventory, txs, lines, catalogOps>>
          ELSE /\ req' = [req EXCEPT ![r] =
                      [@ EXCEPT !.sInv = IF InventoryWriteInUnit THEN Append(@, op) ELSE @,
                                !.idx = @ + 1, !.pc = nextPc]]
               /\ inventory' = IF InventoryWriteInUnit THEN inventory
                               ELSE ApplyInv(inventory, <<op>>)
               /\ UNCHANGED <<gen, reader, agent, variant, sessionReads, products, txs, lines, catalogOps>>

\* mongo: TransactionItem.insertMany(refundItemDocs) after the loop;
\* sqlite: insertItem.run(...) for the line of the current loop turn
RefundInsertItems(r, ok) ==
    /\ req[r].pc = "refund_lines"
    /\ CanStep(r)
    /\ IF ok
       THEN LET q == req[r]
                n == IF variant = "mongo" THEN Len(q.cart) ELSE 1
                first == IF variant = "mongo" THEN 1 ELSE q.idx
                ids == nextLineIds(n)
                docs == [i \in 1..n |-> ItemDoc(ids[i], q.txid, q.cart[first + i - 1], -1)]
            IN /\ req' = [req EXCEPT ![r] =
                      [@ EXCEPT !.sLines = @ \o docs,
                                !.pc = IF variant = "mongo" THEN "refund_render" ELSE "refund_inv"]]
               /\ UNCHANGED <<gen, reader, agent, variant, sessionReads, products, inventory, txs, lines, catalogOps>>
       ELSE AbortStep(r, "Failed to create refund transaction", "storage")

RefundRender(r, ok) ==
    /\ req[r].pc = "refund_render"
    /\ CanStep(r)
    /\ RenderStep(r, ok, "Failed to create refund transaction")

RefundCommit(r, ok) ==
    /\ req[r].pc = "refund_commit"
    /\ CanStep(r)
    /\ CommitStep(r, ok, "refund_respond", "Failed to create refund transaction")

RefundRespond(r) ==
    /\ req[r].pc = "refund_respond"
    /\ CanStep(r)
    /\ sendToPrintAgent(req[r].txid)
    /\ req' = [req EXCEPT ![r] = Reply(@, 200, "")]
    /\ UNCHANGED <<gen, reader, variant, sessionReads, products, inventory, txs, lines, catalogOps>>

\* the handler has returned: the client has its response, or waits on a socket
\* nothing will be written to; the slot serves the next request
Finish(r) ==
    /\ req[r].pc \in {"done", "hung"}
    /\ req' = [req EXCEPT ![r] = IdleReq]
    /\ UNCHANGED <<gen, reader, agent, variant, sessionReads, products, inventory, txs, lines, catalogOps>>

\* ------------------------------------------------------------ GET handlers
\* A GET handler reads without a session: committed rows only.
ReaderCanStart ==
    /\ reader.pc \in {"idle", "done"}
    /\ variant = "mongo" \/ \A o \in Reqs : ~InHandler(o)

ReadReply(op, status, error, tx, items, text) ==
    [pc |-> "done", op |-> op, status |-> status, error |-> error,
     transaction |-> tx, items |-> items, receiptText |-> text, summary |-> <<>>]

\* the lines are selected by their own id
ItemsOfTxByLineId(tx) == {l \in VisibleLines(IdleReq, FALSE) : l.id = tx.id}

\* TransactionItem.find({ transaction: tx._id }) / SELECT ti.* ... WHERE ti.transaction_id = ?
ItemsOfTx(tx) == {l \in VisibleLines(IdleReq, FALSE) : l.transaction = tx.id}

\* a code no transaction carries, and the codes the ledger holds
UnknownCode == generateTC(StoreCode(1), RegisterCode(1), Digits(0), CHOOSE t \in Times : TRUE)
TcInputs == {UnknownCode} \cup ({t.tc_number : t \in txs} \ {NoCode})

\* GET /api/transactions/by-tc/:tcNumber: Transaction.findOne({ tc_number })
GetByTc(tcNumber) ==
    /\ ReaderCanStart
    /\ LET found == {t \in VisibleTxs(IdleReq, FALSE) : t.tc_number = tcNumber}
       IN IF found = {}
          THEN reader' = ReadReply("by-tc", 404, "Transaction not found", <<>>, {}, <<>>)
          ELSE LET tx == CHOOSE t \in found : TRUE
               IN reader' = IF variant = "mongo"
                            THEN [NoRead EXCEPT !.pc = "bytc_items", !.op = "by-tc",
                                                !.transaction = <<tx>>]
                            ELSE ReadReply("by-tc", 200, "", <<tx>>, ItemsOfTx(tx), <<>>)
    /\ UNCHANGED <<gen, agent, variant, sessionReads, products, inventory, txs, lines, catalogOps, req>>

\* ... then TransactionItem.find and res.json({ transaction, items })
GetByTcItems ==
    /\ reader.pc = "bytc_items"
    /\ reader' = ReadReply("by-tc", 200, "", reader.transaction,
                           ItemsOfTx(reader.transaction[1]), <<>>)
    /\ UNCHANGED <<gen, agent, variant, sessionReads, products, inventory, txs, lines, catalogOps, req>>

\* GET /api/transactions/:id/receipt: findById, renderTextReceipt(id),
\* res.json({ transaction, receiptText })
GetReceipt(id) ==
    /\ ReaderCanStart
    /\ LET found == {t \in VisibleTxs(IdleReq, FALSE) : t.id = id}
       IN IF id = 0
          THEN reader' = IF variant = "mongo"
                         THEN ReadReply("receipt", 404, "Transaction not found", <<>>, {}, <<>>)
                         ELSE ReadReply("receipt", 400, "Invalid id", <<>>, {}, <<>>)
          ELSE IF found = {}
          THEN reader' = ReadReply("receipt", 404, "Transaction not found", <<>>, {}, <<>>)
          ELSE LET tx == CHOOSE t \in found : TRUE
               IN reader' = ReadReply("receipt", 200, "", <<tx>>, {},
                                      <<renderTextReceipt(tx, ItemsOfTx(tx))>>)
    /\ UNCHANGED <<gen, agent, variant, sessionReads, products, inventory, txs, lines, catalogOps, req>>

RECURSIVE SumTotal(_)
SumTotal(S) ==
    IF S = {} THEN 0
    ELSE LET t == CHOOSE x \in S : TRUE IN t.total + SumTotal(S \ {t})

\* GET /api/reports/sales-summary: the summary row, one aggregate over the
\* transactions of the period (here: all of them)
GetSalesSummary ==
    /\ ReaderCanStart
    /\ LET matched == VisibleTxs(IdleReq, FALSE)
           summaryRow == [sales_total |-> SumTotal({t \in matched : t.type = "SALE"}),
                          refunds_total |-> SumTotal({t \in matched : t.type = "REFUND"}),
                          net_total |-> SumTotal(matched),
                          tx_count |-> Cardinality(matched)]
       IN reader' = [ReadReply("sales-summary", 200, "", <<>>, {}, <<>>)
                        EXCEPT !.summary = <<summaryRow>>]
    /\ UNCHANGED <<gen, agent, variant, sessionReads, products, inventory, txs, lines, catalogOps, req>>

\* ------------------------------------------------- catalog administration
\* sqlite handlers cannot run in the middle of another (synchronous) handler
AdminCanRun == variant = "mongo" \/ \A o \in Reqs : ~InHandler(o)
KeyLocked(key) == \E o \in Reqs : \E i \in 1..Len(req[o].sInv) : req[o].sInv[i].key = key

\* POST /api/products: Product.create, then the inventory upsert-set (two
\* independent writes: the second can fail after the first has been stored)
CreateProduct(p, price, tax_rate, storeId, quantity, invOk) ==
    /\ AdminCanRun
    /\ catalogOps < MaxCatalogOps
    /\ ~products[p].exists
    /\ \A o \in ProductIds : o < p => products[o].exists
    /\ storeId \in StoreIds
    /\ ~KeyLocked(<<storeId, p>>)
    /\ products' = [products EXCEPT ![p] =
            [exists |-> TRUE, price |-> price, tax_rate |-> tax_rate, active |-> TRUE]]
    /\ inventory' = IF invOk
                    THEN [inventory EXCEPT ![<<storeId, p>>] = [exists |-> TRUE, quantity |-> quantity]]
                    ELSE inventory
    /\ catalogOps' = catalogOps + 1
    /\ UNCHANGED <<gen, reader, agent, variant, sessionReads, txs, lines, req>>

\* PUT /api/products/:id: the body names the fields to change
NoChange == [price |-> <<>>, tax_rate |-> <<>>, active |-> <<>>]
ProductPatches == {[NoChange EXCEPT !.price = <<-100>>],
                   [NoChange EXCEPT !.tax_rate = <<-5>>],
                   [NoChange EXCEPT !.active = <<FALSE>>]}

UpdateProduct(p, body) ==
    /\ AdminCanRun
    /\ catalogOps < MaxCatalogOps
    /\ products[p].exists
    /\ products' = [products EXCEPT ![p] =
            [exists |-> TRUE,
             price |-> IF body.price # <<>> THEN body.price[1] ELSE @.price,
             tax_rate |-> IF body.tax_rate # <<>> THEN body.tax_rate[1] ELSE @.tax_rate,
             active |-> IF body.active # <<>> THEN body.active[1] ELSE @.active]]
    /\ catalogOps' = catalogOps + 1
    /\ UNCHANGED <<gen, reader, agent, variant, sessionReads, inventory, txs, lines, req>>

\* POST /api/inventory/set (the sqlite server looks the product up among the
\* active products only)
SetInventory(storeId, p, quantity) ==
    /\ AdminCanRun
    /\ catalogOps < MaxCatalogOps
    /\ storeId \in StoreIds
    /\ products[p].exists
    /\ variant = "sqlite" => products[p].active
    /\ ~KeyLocked(<<storeId, p>>)
    /\ inventory' = [inventory EXCEPT ![<<storeId, p>>] = [exists |-> TRUE, quantity |-> quantity]]
    /\ catalogOps' = catalogOps + 1
    /\ UNCHANGED <<gen, reader, agent, variant, sessionReads, products, txs, lines, req>>

\* ------------------------------------------------- generateTC called directly
\* the wall clock moves on
ClockTick(t) ==
    /\ gen.now # t
    /\ gen' = [gen EXCEPT !.now = t]
    /\ UNCHANGED <<variant, sessionReads, products, inventory, txs, lines, catalogOps, req, reader, agent>>

\* generateTC({ storeCode, registerCode, transactionId, date }); a second call
\* repeats the arguments of the first.  `now` and `stored` note the wall clock
\* and the number of stored transactions at the time of the call.
GenerateCall(storeCode, registerCode, transactionId, date) ==
    /\ Len(gen.calls) < MaxCalls
    /\ LET args == <<storeCode, registerCode, transactionId, date>>
           code == generateTC(storeCode, registerCode, transactionId,
                              dateOrNow(date, gen.now))
       IN /\ gen.calls # <<>> => gen.calls[1].args = args
          /\ gen' = [gen EXCEPT !.calls =
                        Append(@, [args |-> args, code |-> code, now |-> gen.now,
                                   stored |-> Cardinality(txs)])]
    /\ UNCHANGED <<variant, sessionReads, products, inventory, txs, lines, catalogOps, req, reader, agent>>

\* ------------------------------------------------------------------- Next
LineIdInputs == {0} \cup {l.id : l \in lines}
InvInputs == {5}

\* handler steps of request r, whatever its kind
SaleSteps(r) ==
    \/ \E p \in ProductInputs, k \in QtyInputs : SaleNextItem(r, p, k)
    \/ \E now \in Times : SaleStartSession(r, now)
    \/ \E answered \in BOOLEAN : SaleReadThrows(r, answered)
    \/ \E ok \in BOOLEAN : SaleCreateTx(r, ok)
    \/ \E ok \in BOOLEAN : SaleSaveCode(r, ok)
    \/ \E ok \in BOOLEAN : SaleInsertItems(r, ok)
    \/ \E ok \in BOOLEAN : SaleUpdateInventory(r, ok)
    \/ \E ok \in BOOLEAN : SaleRender(r, ok)
    \/ \E ok \in BOOLEAN : SaleCommit(r, ok)
    \/ SaleRespond(r)

RefundSteps(r) ==
    \/ RefundFindOriginal(r)
    \/ RefundFindItems(r)
    \/ \E ti \in LineIdInputs, k \in 0..(MaxQty + 1) : RefundNextLine(r, ti, k)
    \/ \E now \in Times : RefundStartSession(r, now)
    \/ \E answered \in BOOLEAN : RefundReadThrows(r, answered)
    \/ \E ok \in BOOLEAN : RefundCreateTx(r, ok)
    \/ \E ok \in BOOLEAN : RefundSaveCode(r, ok)
    \/ \E ok \in BOOLEAN : RefundUpdateInventory(r, ok)
    \/ \E ok \in BOOLEAN : RefundInsertItems(r, ok)
    \/ \E ok \in BOOLEAN : RefundRender(r, ok)
    \/ \E ok \in BOOLEAN : RefundCommit(r, ok)
    \/ RefundRespond(r)

CatalogSteps ==
    \/ \E p \in ProductIds, s \in StoreInputs, invOk \in BOOLEAN :
          CreateProduct(p, SeedPrice, SeedTaxRate, s, SeedQuantity, invOk)
    \/ \E p \in ProductIds, c \in ProductPatches : UpdateProduct(p, c)
    \/ \E s \in StoreInputs, p \in ProductIds, k \in InvInputs : SetInventory(s, p, k)

\* Requests arrive one after the other: a client posts, waits for the response,
\* posts again, and the manager's catalog calls fall between two postings.
NoneInFlight == \A o \in Reqs : req[o].pc = "idle"
SalesCommitted == Cardinality({t \in txs : t.type = "SALE"})
RefundsCommitted == Cardinality({t \in txs : t.type = "REFUND"})

Next ==
    \/ \E r \in Reqs, s \in StoreInputs, g \in RegisterInputs, pm \in PaymentInputs,
          n \in 0..MaxCart :
          NoneInFlight /\ SalesCommitted < MaxSales /\ SaleRequest(r, s, g, pm, n)
    \/ \E r \in Reqs, id \in 0..MaxTx, n \in 0..MaxCart :
          NoneInFlight /\ RefundsCommitted < MaxRefunds /\ RefundRequest(r, id, n)
    \/ \E r \in Reqs : SaleSteps(r)
    \/ \E r \in Reqs : RefundSteps(r)
    \/ \E r \in Reqs : Finish(r)
    \/ NoneInFlight /\ CatalogSteps

Spec == Init /\ [][Next]_vars

\* Postings, one after the other, with GET requests served in between and
\* while a posting is at an await.
PostingSteps ==
    \/ \E r \in Reqs, s \in StoreInputs, g \in RegisterInputs, pm \in PaymentInputs,
          n \in 0..MaxCart :
          NoneInFlight /\ SalesCommitted < MaxSales /\ SaleRequest(r, s, g, pm, n)
    \/ \E r \in Reqs, id \in 0..MaxTx, n \in 0..MaxCart :
          NoneInFlight /\ RefundsCommitted < MaxRefunds /\ RefundRequest(r, id, n)
    \/ \E r \in Reqs : SaleSteps(r)
    \/ \E r \in Reqs : RefundSteps(r)
    \/ \E r \in Reqs : Finish(r)

ReaderSteps ==
    \/ GetSalesSummary
    \/ \E tc \in TcInputs : GetByTc(tc)
    \/ GetByTcItems
    \/ \E id \in 0..MaxTx : GetReceipt(id)

NextRead == PostingSteps \/ ReaderSteps

SpecRead == Init /\ [][NextRead]_vars

\* Postings with the print-agent calls they start settling at any later time.
NextNotify ==
    \/ PostingSteps
    \/ \E id \in 1..MaxTx, ok \in BOOLEAN : PrintAgentSettles(id, ok)

SpecNotify == Init /\ [][NextNotify]_vars

\* SALE postings with the wall clock moving and generateTC called in between.
NextGen ==
    \/ \E r \in Reqs, s \in StoreInputs, g \in RegisterInputs, pm \in PaymentInputs,
          n \in 0..MaxCart :
          NoneInFlight /\ SalesCommitted < MaxSales /\ SaleRequest(r, s, g, pm, n)
    \/ \E r \in Reqs : SaleSteps(r)
    \/ \E r \in Reqs : Finish(r)
    \/ \E t \in ClockTimes : ClockTick(t)
    \/ \E s \in StoreIds, g \in RegisterIds, id \in 1..MaxTx, date \in Times \cup {NoDate} :
          GenerateCall(StoreCode(s), RegisterCode(g), IdString(variant, id), date)

SpecGen == Init /\ [][NextGen]_vars

\* SALE postings with product updates arriving at any time: between two
\* awaits of a handler (mongo) or between two handlers (sqlite).
NextUpdate ==
    \/ \E r \in Reqs, s \in StoreInputs, g \in RegisterInputs, pm \in PaymentInputs,
          n \in 0..MaxCart :
          NoneInFlight /\ SalesCommitted < MaxSales /\ SaleRequest(r, s, g, pm, n)
    \/ \E r \in Reqs : SaleSteps(r)
    \/ \E r \in Reqs : Finish(r)
    \/ \E p \in ProductIds, c \in ProductPatches : UpdateProduct(p, c)

SpecUpdate == Init /\ [][NextUpdate]_vars

\* Concurrent checkouts: every slot takes one SALE and the handlers interleave
\* at their awaits (mongo) or queue behind each other (sqlite).
NextConc ==
    \/ \E r \in Reqs, s \in StoreInputs, g \in RegisterInputs, pm \in PaymentInputs,
          n \in 0..MaxCart : SaleRequest(r, s, g, pm, n)
    \/ \E r \in Reqs : SaleSteps(r)

SpecConc == Init /\ [][NextConc]_vars

TypeOK ==
    /\ variant \in {"mongo", "sqlite"}
    /\ \A r \in Reqs : req[r].status \in {0, 200, 400, 404, 500}

\* ------------------------------------------------------------- properties
Committed == <<txs, lines, inventory>>
ValidationPcs == {"sale_items", "refund_original", "refund_items", "refund_lines_in"}
CommitPcs == {"sale_commit", "refund_commit"}
RespondPcs == {"sale_respond", "refund_respond"}
Keys == StoreIds \X ProductIds
Quantity(inv, key) == IF inv[key].exists THEN inv[key].quantity ELSE 0
TxOf(l) == CHOOSE t \in txs : t.id = l.transaction
LinesOf(t) == {l \in lines : l.transaction = t.id}

RECURSIVE SumQuantity(_)
SumQuantity(S) ==
    IF S = {} THEN 0
    ELSE LET l == CHOOSE x \in S : TRUE IN l.quantity + SumQuantity(S \ {l})

RECURSIVE SumLineTotal(_)
SumLineTotal(S) ==
    IF S = {} THEN 0
    ELSE LET l == CHOOSE x \in S : TRUE IN l.line_total + SumLineTotal(S \ {l})

RECURSIVE SumTaxAmount(_)
SumTaxAmount(S) ==
    IF S = {} THEN 0
    ELSE LET l == CHOOSE x \in S : TRUE IN l.tax_amount + SumTaxAmount(S \ {l})

RECURSIVE SumPriced(_)
SumPriced(S) ==
    IF S = {} THEN 0
    ELSE LET l == CHOOSE x \in S : TRUE IN l.unit_price * l.quantity + SumPriced(S \ {l})

\* C1: a posting writes the ledger and the inventory in one step only, its
\* commit, and a posting that has committed answers 200; so a posting that
\* fails inside its atomic unit (answer 500) has left no transaction, no line
\* and no inventory change behind.
C1_FailedUnitLeavesNoTrace ==
    [][\A r \in Reqs :
          req'[r] # req[r] =>
             /\ ~(req[r].pc \in CommitPcs /\ req'[r].pc \in RespondPcs)
                   => Committed' = Committed
             /\ req'[r].status = 500 => Committed' = Committed
             /\ req[r].pc \in RespondPcs => req'[r].status = 200]_vars

\* the second inventory update of a posting failed, after the transaction, its
\* code, its lines and the first inventory update had been written
C1_Witness ==
    \E r \in Reqs : /\ req[r].status = 500 /\ req[r].cause = "storage"
                    /\ req[r].at \in {"sale_inv", "refund_inv"} /\ req[r].idx = 2

\* C2: a SALE that passed every validation and met no storage failure ends
\* with status 200, the committed transaction, its lines and the receipt.
C2_ValidSaleCommits ==
    \A r \in Reqs :
       (req[r].pc = "done" /\ req[r].kind = "SALE" /\ req[r].status \notin {400, 404}
           /\ req[r].cause # "storage")
       => /\ req[r].status = 200
          /\ req[r].result # <<>>
          /\ req[r].result[1].transaction \in txs
          /\ Len(req[r].result[1].items) > 0

\* C3: the commit of a SALE lowers the inventory record of every product sold
\* by exactly the quantity sold (a missing record counting as 0 and being
\* created), and the commit of a REFUND raises it by the quantity refunded.
SessionQty(q, key) ==
    SumQuantity({l \in SeqToSet(q.sLines) : <<q.storeId, l.product>> = key})

C3_InventoryConservation ==
    [][\A r \in Reqs :
          (req[r].pc \in CommitPcs /\ req'[r].pc \in RespondPcs) =>
             \A key \in Keys :
                SessionQty(req[r], key) # 0 =>
                   /\ inventory'[key].exists
                   /\ inventory'[key].quantity
                         = Quantity(inventory, key) - SessionQty(req[r], key)]_vars

\* C4: for every SALE and product, the quantity refunded by all committed
\* REFUNDs that reference the sale does not exceed the quantity the sale sold.
RefundLinesFor(sale, p) ==
    {l \in lines : l.product = p /\ TxOf(l).type = "REFUND"
                   /\ TxOf(l).reference_transaction = sale.id}

C4_CumulativeRefundBound ==
    \A sale \in txs :
       sale.type = "SALE" =>
          \A p \in ProductIds :
             -SumQuantity(RefundLinesFor(sale, p))
                <= SumQuantity({l \in LinesOf(sale) : l.product = p})

\* C5: whatever the interleaving of the concurrent SALE postings, the inventory
\* record of a product equals its initial quantity minus the quantities of all
\* committed sale lines of that product.
C5_NoLostDecrement ==
    \A key \in Keys :
       inventory[key].exists =>
          inventory[key].quantity
             = SeedQuantity - SumQuantity({l \in lines : l.product = key[2]})

C5_Witness ==
    /\ variant = "mongo"
    /\ Cardinality({t \in txs : t.type = "SALE"}) >= 2
    /\ \E r \in Reqs : req[r].pc = "sale_respond"

\* C6: a REFUND entry asking for more than the original line's quantity makes
\* the request end with 400 "exceeds original quantity", whatever entries were
\* accepted before it, and no step of the validation writes ledger or inventory.
C6_ExcessRefundRejected ==
    [][\A r \in Reqs :
          /\ (req[r].pc \in ValidationPcs /\ req'[r] # req[r]) => Committed' = Committed
          /\ \A ti \in LineIdInputs, k \in 0..(MaxQty + 1) :
                (/\ RefundNextLine(r, ti, k)
                 /\ \E o \in req[r].originalItems : o.id = ti /\ k > Abs(o.quantity))
                => /\ req'[r].status = 400
                   /\ req'[r].error = "Refund quantity exceeds original quantity"]_vars

C6_Witness ==
    \E r \in Reqs : /\ req[r].status = 400
                    /\ req[r].error = "Refund quantity exceeds original quantity"
                    /\ req[r].accepted >= 1

\* C7: a REFUND request that names a REFUND transaction ends with 400 "Only
\* SALE transactions can be refunded" and writes nothing, and every committed
\* REFUND references a committed SALE.
C7_RefundOfRefundRejected ==
    /\ [](\A t \in txs :
             t.type = "REFUND" =>
                \E o \in txs : o.id = t.reference_transaction /\ o.type = "SALE")
    /\ [][\A r \in Reqs :
             (/\ RefundFindOriginal(r)
              /\ \E t \in txs : t.id = req[r].origId /\ t.type = "REFUND")
             => /\ req'[r].status = 400
                /\ req'[r].error = "Only SALE transactions can be refunded"
                /\ Committed' = Committed]_vars

C7_Witness ==
    \E r \in Reqs : /\ req[r].status = 400
                    /\ req[r].error = "Only SALE transactions can be refunded"

\* C8: every committed transaction has total = subtotal + taxTotal, all three
\* >= 0 on a SALE and all three <= 0 on a REFUND.
C8_TotalsSignConsistent ==
    \A t \in txs :
       /\ t.total = t.subtotal + t.tax_total
       /\ t.type = "SALE" => t.subtotal >= 0 /\ t.tax_total >= 0 /\ t.total >= 0
       /\ t.type = "REFUND" => t.subtotal <= 0 /\ t.tax_total <= 0 /\ t.total <= 0

\* C9: a committed SALE's subtotal is the sum of unitPrice * quantity over its
\* lines and of their stored lineTotal, its taxTotal the sum of their stored
\* taxAmount, and at commit every line carries the product's price and the tax
\* unitPrice * quantity * taxRate / 100 at the product's rate.
C9_SaleTotalsMatchLines ==
    /\ [](\A t \in txs :
             t.type = "SALE" =>
                /\ t.subtotal = SumPriced(LinesOf(t))
                /\ t.subtotal = SumLineTotal(LinesOf(t))
                /\ t.tax_total = SumTaxAmount(LinesOf(t)))
    /\ [][\A r \in Reqs :
             (req[r].pc = "sale_commit" /\ req'[r].pc = "sale_respond") =>
                \A l \in SeqToSet(req[r].sLines) :
                   /\ l.unit_price = products[l.product].price
                   /\ l.tax_amount * 100
                         = l.unit_price * l.quantity * products[l.product].tax_rate]_vars

C9_Witness ==
    \E t \in txs : t.type = "SALE" /\ Cardinality(LinesOf(t)) = 2 /\ t.tax_total # 0

\* C10: every committed REFUND has total <= 0 and each of its lines reverses no
\* more than the quantity of a line of the referenced sale for the same product.
C10_RefundTotalsAndBound ==
    \A t \in txs :
       t.type = "REFUND" =>
          /\ t.total <= 0
          /\ \A l \in LinesOf(t) :
                \E o \in lines : /\ o.transaction = t.reference_transaction
                                 /\ o.product = l.product
                                 /\ Abs(l.quantity) <= Abs(o.quantity)

\* C11: no two committed transactions carry the same code, and the code of a
\* REFUND differs from the code of the SALE it references.
C11_CodesUnique ==
    /\ \A t1, t2 \in txs : t1.id # t2.id => t1.tc_number # t2.tc_number
    /\ \A t \in txs :
          t.type = "REFUND" =>
             \A o \in txs : o.id = t.reference_transaction => o.tc_number # t.tc_number

\* a REFUND committed in the same minute, store and register as its SALE
C11_Witness ==
    \E t, o \in txs :
       /\ t.type = "REFUND" /\ o.id = t.reference_transaction
       /\ t.tc_number # NoCode /\ o.tc_number # NoCode
       /\ \A i \in 1..4 : t.tc_number[i] = o.tc_number[i]

\* C12: every transaction a reader can observe carries its code: no committed
\* transaction has a null code, and no response of the lookup by code or of the
\* receipt lookup, served while postings are in flight, shows one.
C12_NoNullCodeObserved ==
    /\ \A t \in txs : t.tc_number # NoCode
    /\ reader.transaction # <<>> => reader.transaction[1].tc_number # NoCode
    /\ reader.receiptText # <<>> => reader.receiptText[1].tc_number # NoCode

\* a lookup is between its two reads while a posting has inserted its
\* transaction and not yet written the code back
C12_Witness ==
    /\ reader.pc = "bytc_items"
    /\ \E r \in Reqs : req[r].sTx # <<>> /\ req[r].sTx[1].tc_number = NoCode

\* C13: the print-agent call is started and not waited for: the handler answers
\* 200 with the committed result while the call is still pending, and the call
\* settling, failed or not, changes no response, no transaction, no line and no
\* inventory record.
C13_NotifierFailureHarmless ==
    [][/\ agent' # agent /\ req' = req => Committed' = Committed
       /\ \A r \in Reqs :
             /\ (req[r].pc \in RespondPcs /\ req'[r] # req[r])
                   => /\ req'[r].status = 200
                      /\ req'[r].result = req[r].result
                      /\ agent'[req[r].txid] = "pending"
                      /\ Committed' = Committed
             /\ (req[r].pc = "done" /\ req'[r].pc = "done") => req'[r] = req[r]]_vars

\* the call made for a committed posting has failed; the posting is still in
\* the ledger and its request was answered 200
C13_Witness ==
    \E r \in Reqs :
       /\ req[r].pc = "done" /\ req[r].status = 200
       /\ agent[req[r].result[1].transaction.id] = "failed"
       /\ req[r].result[1].transaction \in txs

\* C14: a lookup by the code a SALE posting returned answers 200 with the
\* subtotal, taxTotal and total the posting returned and with the same lines
\* (product, quantity, unitPrice, lineTotal, taxAmount); a lookup by a code no
\* transaction has answers 404 "Transaction not found"; no lookup changes the
\* ledger, the inventory, the catalog or a posting's response.
LineFacts(l) == <<l.product, l.quantity, l.unit_price, l.line_total, l.tax_amount>>

C14_LookupRoundTrip ==
    /\ [](\A r \in Reqs :
             (/\ req[r].pc = "done" /\ req[r].kind = "SALE" /\ req[r].status = 200
              /\ reader.pc = "done" /\ reader.op = "by-tc"
              /\ reader.transaction # <<>>
              /\ reader.transaction[1].tc_number = req[r].result[1].transaction.tc_number)
             => LET posted == req[r].result[1]
                    found == reader.transaction[1]
                IN /\ reader.status = 200
                   /\ found.subtotal = posted.transaction.subtotal
                   /\ found.tax_total = posted.transaction.tax_total
                   /\ found.total = posted.transaction.total
                   /\ Cardinality(reader.items) = Len(posted.items)
                   /\ {LineFacts(l) : l \in reader.items}
                         = {LineFacts(l) : l \in SeqToSet(posted.items)})
    /\ [][/\ reader' # reader => Committed' = Committed /\ products' = products /\ req' = req
          /\ \A tc \in TcInputs :
                (GetByTc(tc) /\ \A t \in txs : t.tc_number # tc)
                => /\ reader'.status = 404
                   /\ reader'.error = "Transaction not found"
          /\ \A tc \in TcInputs :
                (GetByTc(tc) /\ \E t \in txs : t.tc_number = tc)
                => reader'.status # 404 /\ reader'.transaction # <<>>]_vars

\* the two-line SALE just posted has been looked up by its code
C14_Witness ==
    \E r \in Reqs :
       /\ req[r].pc = "done" /\ req[r].kind = "SALE" /\ req[r].status = 200
       /\ Len(req[r].result[1].items) = 2
       /\ reader.pc = "done" /\ reader.op = "by-tc" /\ reader.status = 200
       /\ reader.transaction[1].tc_number = req[r].result[1].transaction.tc_number

\* C15: a step that changes a product changes no stored transaction and no
\* stored line, and every line a REFUND commits carries the unit price of the
\* original line and the original line's tax per unit (taxAmount / quantity)
\* times the refunded quantity, whatever the product's price and rate are now.
C15_HistoricalLinesFrozen ==
    [][/\ products' # products => lines' = lines /\ txs' = txs
       /\ \A r \in Reqs :
             (req[r].pc = "refund_commit" /\ req'[r].pc = "refund_respond") =>
                /\ Len(req[r].sLines) = Len(req[r].cart)
                /\ \A i \in 1..Len(req[r].cart) :
                      \E o \in lines :
                         /\ o.id = req[r].cart[i].originalItem
                         /\ o.transaction = req[r].origId
                         /\ req[r].sLines[i].product = o.product
                         /\ req[r].sLines[i].quantity = -req[r].cart[i].quantity
                         /\ req[r].sLines[i].unit_price = o.unit_price
                         /\ req[r].sLines[i].tax_amount * o.quantity
                               = o.tax_amount * req[r].sLines[i].quantity]_vars

\* a REFUND was committed after the product's tax rate had been changed
C15_Witness ==
    \E t \in txs :
       /\ t.type = "REFUND"
       /\ \E l \in LinesOf(t) :
             /\ products[l.product].tax_rate # SeedTaxRate
             /\ l.tax_amount * 100 = l.unit_price * l.quantity * SeedTaxRate
             /\ l.tax_amount # 0

FullRefund(q) ==
    /\ Len(q.cart) = Cardinality(q.originalItems)
    /\ \A o \in q.originalItems :
          \E i \in 1..Len(q.cart) :
             q.cart[i].originalItem = o.id /\ q.cart[i].quantity = o.quantity

C18_EveryPostingAnswered ==
    \A r \in Reqs :
       /\ req[r].pc # "hung"
       /\ req[r].pc = "done" =>
             \/ req[r].status = 200 /\ req[r].result # <<>>
             \/ req[r].status # 200 /\ req[r].error # ""

\* C19: generateTC is a pure function of (storeCode, registerCode,
\* transactionId, timestamp): two calls with the same four arguments return the
\* same code, whatever the wall clock shows, whatever was called before and
\* whatever is stored.
C19_GenerateIsPure ==
    \A i, j \in 1..Len(gen.calls) :
       (gen.calls[i].args = gen.calls[j].args /\ gen.calls[i].args[4] # NoDate)
          => gen.calls[i].code = gen.calls[j].code

\* the same four arguments were passed twice, the clock showing another time
\* and one more transaction being stored at the second call
C19_Witness ==
    /\ Len(gen.calls) = 2
    /\ gen.calls[1].args = gen.calls[2].args
    /\ gen.calls[1].args[4] # NoDate
    /\ gen.calls[1].now # gen.calls[2].now
    /\ gen.calls[1].stored < gen.calls[2].stored
    /\ gen.calls[1].code = gen.calls[2].code

\* C20: the SEQ field of every generated code is the transaction identifier
\* zero-padded to exactly 6 digits, so that every code has the shape 8 digits,
\* store code, register code, 4 digits, 6 digits.
C20_SeqIsSixDigits ==
    \A t \in txs :
       t.tc_number # NoCode =>
          /\ Len(t.tc_number) = 5
          /\ Len(t.tc_number[1]) = 8
          /\ t.tc_number[2] = StoreCode(t.store)
          /\ t.tc_number[3] = RegisterCode(t.register)
          /\ Len(t.tc_number[4]) = 4
          /\ Len(t.tc_number[5]) = SeqWidth
          /\ t.tc_number[5] = pad(Digits(t.id), SeqWidth)

\* C21: the receipt renderer and the print-agent call run only after the
\* atomic unit has committed and outside of it, so a renderer failure cannot
\* abort or roll back the posting.
RenderPcs == {"sale_render", "refund_render"}
C21_RenderAfterCommit ==
    \A r \in Reqs :
       /\ req[r].pc \in RenderPcs => \E t \in txs : t.id = req[r].txid
       /\ ~(req[r].pc = "done" /\ req[r].at \in RenderPcs /\ req[r].status = 500)

\* C22: every validation of a posting is done before its atomic unit begins:
\* a request answered with a client error (400, 404) was answered from a
\* validation step and has written nothing, and a request that has entered the
\* atomic unit ends with the committed result or with a 500.
UnitPcs == {"sale_create", "sale_code", "sale_lines", "sale_inv", "sale_render",
            "sale_commit", "refund_create", "refund_code", "refund_inv",
            "refund_lines", "refund_render", "refund_commit"}
C22_ValidationBeforeUnit ==
    /\ [](\A r \in Reqs :
             req[r].pc \in ValidationPcs =>
                /\ req[r].sTx = <<>> /\ req[r].sLines = <<>> /\ req[r].sInv = <<>>
                /\ req[r].txid = 0)
    /\ [][\A r \in Reqs :
             req'[r] # req[r] =>
                /\ (req'[r].pc = "done" /\ req'[r].status \in {400, 404})
                      => /\ req[r].pc \in ValidationPcs \cup {"idle"}
                         /\ Committed' = Committed
                /\ (req[r].pc \in UnitPcs /\ req'[r].pc = "done")
                      => /\ req'[r].status = 500
                         /\ req'[r].error # ""
                /\ req[r].pc \in UnitPcs
                      => req'[r].pc \in UnitPcs \cup RespondPcs \cup {"done"}]_vars

\* a refund request rejected on its second entry after a valid first one, a
\* SALE being committed
C22_Witness ==
    \E r \in Reqs : /\ req[r].pc = "done" /\ req[r].status = 400
                    /\ req[r].at = "refund_lines_in" /\ req[r].accepted = 1
                    /\ txs # {}

\* C23: a SALE is never rejected for lack of stock, and when no inventory
\* record exists for (store, product) the commit of the SALE creates one whose
\* quantity is 0 minus the quantity sold.
C23_SaleCreatesMissingRecord ==
    [][\A r \in Reqs :
          (req[r].pc = "sale_commit" /\ req'[r].pc = "sale_respond") =>
             \A key \in Keys :
                (SessionQty(req[r], key) # 0 /\ ~inventory[key].exists) =>
                   /\ inventory'[key].exists
                   /\ inventory'[key].quantity = 0 - SessionQty(req[r], key)]_vars

\* C24: every REFUND transaction references an existing SALE transaction and
\* carries that sale's store and register; every SALE transaction has no
\* reference.
C24_ReferenceWellFormed ==
    \A t \in txs \cup UNION {SeqToSet(req[r].sTx) : r \in Reqs} :
       /\ t.type = "REFUND" =>
             \E o \in txs : /\ o.id = t.reference_transaction
                            /\ o.type = "SALE"
                            /\ o.store = t.store
                            /\ o.register = t.register
       /\ t.type = "SALE" => t.reference_transaction = 0

\* two REFUNDs of a SALE are committed
C24_Witness ==
    \E t, u \in txs : /\ t.id # u.id /\ t.type = "REFUND" /\ u.type = "REFUND"
                      /\ t.reference_transaction = u.reference_transaction
                      /\ t.reference_transaction # 0

\* C25: every stored line has line_total = unit_price * quantity with
\* unit_price not negative, quantity > 0 on a SALE line and < 0 on a REFUND
\* line, and a tax_amount that is never of the sign opposite to the quantity's.
C25_LineInvariant ==
    \A l \in lines :
       /\ l.line_total = l.unit_price * l.quantity
       /\ l.unit_price >= 0
       /\ TxOf(l).type = "SALE" => l.quantity > 0
       /\ TxOf(l).type = "REFUND" => l.quantity < 0
       /\ l.quantity > 0 => l.tax_amount >= 0
       /\ l.quantity < 0 => l.tax_amount <= 0

\* C26: in a REFUND request an entry with quantity zero is left out and the
\* other entries are refunded; the request is rejected as empty ("No valid
\* items to refund") only when no entry remains.
C26_ZeroQuantityFiltered ==
    /\ [](\A r \in Reqs :
             (req[r].pc = "done" /\ req[r].error = "No valid items to refund")
                => req[r].accepted = 0)
    /\ [][\A r \in Reqs : \A ti \in LineIdInputs :
             RefundNextLine(r, ti, 0) => req'[r].pc # "done"]_vars

\* C27: in a committed REFUND the quantity refunded for one original line,
\* summed over all entries of the request that name that line, does not exceed
\* the quantity the line was sold with, also when the line is named twice.
RECURSIVE EntriesQty(_, _)
EntriesQty(cart, originalItemId) ==
    IF cart = <<>> THEN 0
    ELSE (IF Head(cart).originalItem = originalItemId THEN Head(cart).quantity ELSE 0)
         + EntriesQty(Tail(cart), originalItemId)

C27_RefundWithinLinePerRequest ==
    [][\A r \in Reqs :
          (req[r].pc = "refund_commit" /\ req'[r].pc = "refund_respond") =>
             \A o \in req[r].originalItems :
                EntriesQty(req[r].cart, o.id) <= Abs(o.quantity)]_vars

\* C28: across SALE and REFUND postings, with no administrative write in
\* between, the quantity of the inventory record of (store, product), taken as
\* 0 when there is no record, plus the quantities of all stored lines of that
\* product in transactions of that store stays what it was.
StoredQty(L, T, key) ==
    SumQuantity({l \in L : \E t \in T : /\ t.id = l.transaction
                                        /\ <<t.store, l.product>> = key})

C28_StockPlusLinesConstant ==
    [][catalogOps' = catalogOps =>
          \A key \in Keys :
             Quantity(inventory', key) + StoredQty(lines', txs', key)
                = Quantity(inventory, key) + StoredQty(lines, txs, key)]_vars

\* C29: when a product update runs concurrently with a SALE posting, the SALE
\* commits no line of a product that is inactive at the moment of the commit,
\* and the unit price and the tax of every line it commits are those of the
\* product at that moment.
C29_LinesCurrentAtCommit ==
    [][\A r \in Reqs :
          (req[r].pc = "sale_commit" /\ req'[r].pc = "sale_respond") =>
             \A i \in 1..Len(req[r].sLines) :
                LET l == req[r].sLines[i]
                    product == products[l.product]
                IN /\ product.active
                   /\ l.unit_price = product.price
                   /\ l.tax_amount = (l.line_total * product.tax_rate) \div 100]_vars

\* C30: every line identifier in the items of a SALE response is the
\* identifier of the stored line it describes, so that a REFUND request sending
\* it back as transactionItemId names that line.
C30_ResponseIdsAreStoredIds ==
    \A r \in Reqs :
       (req[r].pc = "done" /\ req[r].kind = "SALE" /\ req[r].status = 200) =>
          LET out == req[r].result[1]
          IN \A i \in 1..Len(out.items) :
                \E l \in lines :
                   /\ l.transaction = out.transaction.id
                   /\ Digits(out.items[i].id) = IdString(variant, l.id)
                   /\ l.product = out.items[i].product
                   /\ l.quantity = out.items[i].quantity

====
